---- MODULE Spec2Model ----
(***************************************************************************)
(* Portfolio ledger of the finance agent backend:                          *)
(*   app/agent/memory.py                  load_memory / save_memory        *)
(*   app/agent/tools/portfolio_manager.py PortfolioManager                 *)
(*                                                                         *)
(* Decimal values (quantities, prices) are integers counting thousandths:  *)
(* 1005 is 1.005, 2000 is 2, and a value with two decimals is a multiple   *)
(* of 10.  Python's None is the empty set and a present optional value v   *)
(* is {v}; in the JSON document null is <<>> and a number v is <<v>>.      *)
(***************************************************************************)
EXTENDS Integers, Sequences, FiniteSets, TLC

VARIABLES
    file,      \* memory.json: missing, unreadable, unparsable, or a JSON document
    lastOp,    \* the last PortfolioManager call and its arguments
    ret,       \* what that call returned or raised
    pre,       \* memory.json as it was when that call started
    calls,     \* number of calls made so far
    persisted, \* per user, the portfolio last handed to a save that succeeded
    erased,    \* the holdings deleted by remove_asset so far
    procs,     \* concurrent runs: each process's position and local variables
    log,       \* concurrent runs: the steps taken, in order
    calc,      \* the last CalculatorTool call, its arguments and its outcome
    exports    \* the files in the exports directory, path to content

seq_vars == <<lastOp, ret, pre, calls, persisted, erased, calc, exports>>
report_vars == <<calc, exports>>
conc_vars == <<procs, log>>
vars == <<file, lastOp, ret, pre, calls, persisted, erased, procs, log,
          calc, exports>>

\* ------------------------------------------------------------------ bounds

\* Number of calls in a run.
MaxCalls == 4

\* ------------------------------------------------------------------ inputs

UserIds == {"", "u1"}
AssetNames == {"", "BTC", "ETH"}
\* 0, 1.005, 2
Quantities == {0, 1005, 2000}
\* -1, 0, 1.004
Prices == {-1000, 0, 1004}

None == {}
Some(v) == {v}

\* ------------------------------------------------------------ decimal, json

\* Decimal(str(v)).quantize(Decimal("0.01"), rounding=ROUND_HALF_UP)
Quantize(v) ==
    IF v >= 0 THEN ((v + 5) \div 10) * 10
              ELSE -((((-v) + 5) \div 10) * 10)

EmptyDict == [k \in {} |-> 0]

\* d[k] = v on a dict
DictSet(d, k, v) == [x \in DOMAIN d \cup {k} |-> IF x = k THEN v ELSE d[x]]

\* Mutant of DictDel: a soft delete that empties the entry and keeps its key.
DictDel_tombstone(d, k) ==
    [x \in DOMAIN d |->
        IF x = k THEN [quantity |-> 0, purchase_prices |-> <<>>,
                       current_price |-> None]
        ELSE d[x]]

\* del d[k]
DictDel(d, k) == [x \in DOMAIN d \ {k} |-> d[x]]

\* d.get(k, {})
DictGet(d, k) == IF k \in DOMAIN d THEN d[k] ELSE EmptyDict

\* json.dump of one holding: None becomes null
DumpHolding(h) ==
    [quantity |-> h.quantity,
     purchase_prices |-> h.purchase_prices,
     current_price |-> IF h.current_price = None THEN <<>>
                       ELSE <<CHOOSE v \in h.current_price : TRUE>>]

\* Mutant of LoadHolding: null read back as the price 0.
LoadHolding_null_as_zero(j) ==
    [quantity |-> j.quantity,
     purchase_prices |-> j.purchase_prices,
     current_price |-> IF Len(j.current_price) = 0 THEN Some(0)
                       ELSE Some(j.current_price[1])]

\* json.load of one holding: null becomes None
LoadHolding(j) ==
    [quantity |-> j.quantity,
     purchase_prices |-> j.purchase_prices,
     current_price |-> IF Len(j.current_price) = 0 THEN None
                       ELSE Some(j.current_price[1])]

DumpRecord(m) ==
    [k \in DOMAIN m |->
        IF k = "portfolio"
        THEN [a \in DOMAIN m[k] |-> DumpHolding(m[k][a])]
        ELSE m[k]]

LoadRecord(j) ==
    [k \in DOMAIN j |->
        IF k = "portfolio"
        THEN [a \in DOMAIN j[k] |-> LoadHolding(j[k][a])]
        ELSE j[k]]

\* json.dump(all_data, f)
JsonDump(all_data) == [u \in DOMAIN all_data |-> DumpRecord(all_data[u])]

\* json.load(f)
JsonLoad(doc) == [u \in DOMAIN doc |-> LoadRecord(doc[u])]

\* ------------------------------------------------------------------ storage

NoFile == [state |-> "missing", doc |-> EmptyDict]
BadFile == [state |-> "corrupt", doc |-> EmptyDict]
JsonFile(doc) == [state |-> "json", doc |-> doc]

\* load_memory(user_id) reading file f
load_memory(f, user_id) ==
    IF f.state = "missing" THEN EmptyDict
    ELSE IF f.state \in {"corrupt", "unreadable"} THEN EmptyDict
    ELSE DictGet(JsonLoad(f.doc), user_id)

\* save_memory(user_id, data) on file f.  The read of an unparsable file
\* raises.  fault is the I/O outcome of the write: "ok", "open" (open(.., "w")
\* raises and the file is as it was) or "write" (the dump raises after the
\* file was truncated).
WriteFaults == {"ok", "open", "write"}

\* Mutant of save_raises: the except clause swallows the failure.
save_raises_swallowed(f, fault) == FALSE

save_raises(f, fault) == f.state \in {"corrupt", "unreadable"} \/ fault # "ok"

\* Mutant of save_read: the existing file is not read before writing.
save_read_nothing(f) == EmptyDict

\* memory.py:23-26, all_data as read by a save that does not raise
save_read(f) == IF f.state = "json" THEN JsonLoad(f.doc) ELSE EmptyDict

\* Mutant of save_write: a record already in all_data is kept (setdefault).
save_write_setdefault(all_data, user_id, data) ==
    JsonFile(JsonDump(IF user_id \in DOMAIN all_data THEN all_data
                      ELSE DictSet(all_data, user_id, data)))

\* memory.py:27-29, the file a save writes
save_write(all_data, user_id, data) ==
    JsonFile(JsonDump(DictSet(all_data, user_id, data)))

save_memory(f, user_id, data, fault) ==
    IF f.state \in {"corrupt", "unreadable"} \/ fault = "open" THEN f
    ELSE IF fault = "write" THEN BadFile
    ELSE save_write(save_read(f), user_id, data)

\* ------------------------------------------------------------------- ledger

Lot(quantity, purchase_price) ==
    [quantity |-> quantity, price |-> Quantize(purchase_price)]

\* Mutant of add_to_portfolio: the increment of an existing holding is not rounded.
add_to_portfolio_unrounded(portfolio, asset_name, quantity, purchase_price) ==
    IF asset_name \in DOMAIN portfolio
    THEN LET h == portfolio[asset_name]
         IN  DictSet(portfolio, asset_name,
                 [quantity |-> h.quantity + quantity,
                  purchase_prices |->
                      Append(h.purchase_prices, Lot(quantity, purchase_price)),
                  current_price |-> h.current_price])
    ELSE DictSet(portfolio, asset_name,
             [quantity |-> Quantize(quantity),
              purchase_prices |-> <<Lot(quantity, purchase_price)>>,
              current_price |-> None])

\* Mutant of add_to_portfolio: a new holding is created without its lot.
add_to_portfolio_lotless(portfolio, asset_name, quantity, purchase_price) ==
    IF asset_name \in DOMAIN portfolio
    THEN LET h == portfolio[asset_name]
         IN  DictSet(portfolio, asset_name,
                 [quantity |-> h.quantity + Quantize(quantity),
                  purchase_prices |->
                      Append(h.purchase_prices, Lot(quantity, purchase_price)),
                  current_price |-> h.current_price])
    ELSE DictSet(portfolio, asset_name,
             [quantity |-> Quantize(quantity),
              purchase_prices |-> <<>>,
              current_price |-> None])

\* Mutant of add_to_portfolio: a purchase resets the market price of the
\* holding it adds to.
add_to_portfolio_price_reset(portfolio, asset_name, quantity, purchase_price) ==
    DictSet(portfolio, asset_name,
        [quantity |-> IF asset_name \in DOMAIN portfolio
                      THEN portfolio[asset_name].quantity + Quantize(quantity)
                      ELSE Quantize(quantity),
         purchase_prices |->
             IF asset_name \in DOMAIN portfolio
             THEN Append(portfolio[asset_name].purchase_prices,
                         Lot(quantity, purchase_price))
             ELSE <<Lot(quantity, purchase_price)>>,
         current_price |-> None])

\* portfolio_manager.py:39-72, the update of the loaded portfolio
add_to_portfolio(portfolio, asset_name, quantity, purchase_price) ==
    IF asset_name \in DOMAIN portfolio
    THEN LET h == portfolio[asset_name]
         IN  DictSet(portfolio, asset_name,
                 [quantity |-> h.quantity + Quantize(quantity),
                  purchase_prices |->
                      Append(h.purchase_prices, Lot(quantity, purchase_price)),
                  current_price |-> h.current_price])
    ELSE DictSet(portfolio, asset_name,
             [quantity |-> Quantize(quantity),
              purchase_prices |-> <<Lot(quantity, purchase_price)>>,
              current_price |-> None])

\* portfolio_manager.py:154-158
set_current_price(portfolio, asset_name, current_price) ==
    DictSet(portfolio, asset_name,
        [quantity |-> portfolio[asset_name].quantity,
         purchase_prices |-> portfolio[asset_name].purchase_prices,
         current_price |-> Some(Quantize(current_price))])

Return(portfolio) == [kind |-> "return", value |-> portfolio, error |-> ""]
Raise(msg) == [kind |-> "raise", value |-> EmptyDict, error |-> msg]

Call(op, user_id, asset_name, quantity, price, fault) ==
    [op |-> op, user_id |-> user_id, asset_name |-> asset_name,
     quantity |-> quantity, price |-> price, fault |-> fault]

\* PortfolioManager.get_portfolio past its argument check
get_portfolio(f, user_id) == DictGet(load_memory(f, user_id), "portfolio")

\* The argument checks, in the order the code makes them; "" when all pass.
check_user(user_id) ==
    IF user_id = "" THEN "User ID must be a non-empty string" ELSE ""

check_asset(asset_name) ==
    IF asset_name = "" THEN "Asset name must be a non-empty string" ELSE ""

add_asset_check(user_id, asset_name, quantity, purchase_price) ==
    IF check_user(user_id) # "" THEN check_user(user_id)
    ELSE IF check_asset(asset_name) # "" THEN check_asset(asset_name)
    ELSE IF quantity <= 0 THEN "Quantity must be positive"
    ELSE IF purchase_price < 0 THEN "Purchase price cannot be negative"
    ELSE ""

remove_asset_check(user_id, asset_name) ==
    IF check_user(user_id) # "" THEN check_user(user_id)
    ELSE check_asset(asset_name)

\* Mutant of update_current_price_check: the price is not checked.
update_current_price_unchecked(user_id, asset_name, current_price) ==
    IF check_user(user_id) # "" THEN check_user(user_id)
    ELSE check_asset(asset_name)

update_current_price_check(user_id, asset_name, current_price) ==
    IF check_user(user_id) # "" THEN check_user(user_id)
    ELSE IF check_asset(asset_name) # "" THEN check_asset(asset_name)
    ELSE IF current_price < 0 THEN "Current price cannot be negative"
    ELSE ""

\* memory["portfolio"] = portfolio; save_memory(user_id, memory); return portfolio
Persist(user_id, memory, portfolio, fault) ==
    /\ file' = save_memory(file, user_id, DictSet(memory, "portfolio", portfolio), fault)
    /\ ret' = IF save_raises(file, fault) THEN Raise("Failed to save memory")
              ELSE Return(portfolio)
    /\ persisted' = IF save_raises(file, fault) THEN persisted
                    ELSE DictSet(persisted, user_id, portfolio)

Begin(call) ==
    /\ calls < MaxCalls
    /\ calls' = calls + 1
    /\ lastOp' = call
    /\ pre' = file
    /\ UNCHANGED <<conc_vars, report_vars>>

\* PortfolioManager.add_asset
AddAsset(user_id, asset_name, quantity, purchase_price, fault) ==
    /\ Begin(Call("add_asset", user_id, asset_name, quantity, purchase_price, fault))
    /\ UNCHANGED erased
    /\ LET err == add_asset_check(user_id, asset_name, quantity, purchase_price)
           memory == load_memory(file, user_id)
           portfolio == DictGet(memory, "portfolio")
       IN  IF err # ""
           THEN ret' = Raise(err) /\ UNCHANGED <<file, persisted>>
           ELSE Persist(user_id, memory,
                    add_to_portfolio(portfolio, asset_name, quantity, purchase_price),
                    fault)

\* Mutant of RemoveAsset: the save is outside the test for the asset.
RemoveAsset_always_saves(user_id, asset_name, fault) ==
    /\ Begin(Call("remove_asset", user_id, asset_name, 0, 0, fault))
    /\ LET err == remove_asset_check(user_id, asset_name)
           memory == load_memory(file, user_id)
           portfolio == DictGet(memory, "portfolio")
       IN  IF err # ""
           THEN ret' = Raise(err) /\ UNCHANGED <<file, persisted>>
           ELSE Persist(user_id, memory,
                    [a \in DOMAIN portfolio \ {asset_name} |-> portfolio[a]], fault)
    /\ erased' =
           IF remove_asset_check(user_id, asset_name) = ""
              /\ asset_name \in DOMAIN get_portfolio(file, user_id)
              /\ ~save_raises(file, fault)
           THEN erased \cup {[user_id |-> user_id, asset_name |-> asset_name,
                               holding |-> get_portfolio(file, user_id)[asset_name]]}
           ELSE erased

\* PortfolioManager.remove_asset
RemoveAsset(user_id, asset_name, fault) ==
    /\ Begin(Call("remove_asset", user_id, asset_name, 0, 0, fault))
    /\ LET err == remove_asset_check(user_id, asset_name)
           memory == load_memory(file, user_id)
           portfolio == DictGet(memory, "portfolio")
       IN  IF err # ""
           THEN ret' = Raise(err) /\ UNCHANGED <<file, persisted>>
           ELSE IF asset_name \in DOMAIN portfolio
           THEN Persist(user_id, memory, DictDel(portfolio, asset_name), fault)
           ELSE ret' = Return(portfolio) /\ UNCHANGED <<file, persisted>>
    /\ erased' =
           IF remove_asset_check(user_id, asset_name) = ""
              /\ asset_name \in DOMAIN get_portfolio(file, user_id)
              /\ ~save_raises(file, fault)
           THEN erased \cup {[user_id |-> user_id, asset_name |-> asset_name,
                               holding |-> get_portfolio(file, user_id)[asset_name]]}
           ELSE erased

\* PortfolioManager.get_portfolio
GetPortfolio(user_id) ==
    /\ Begin(Call("get_portfolio", user_id, "", 0, 0, "ok"))
    /\ UNCHANGED <<file, persisted, erased>>
    /\ ret' = IF check_user(user_id) # "" THEN Raise(check_user(user_id))
              ELSE Return(get_portfolio(file, user_id))

\* PortfolioManager.update_current_price
UpdateCurrentPrice(user_id, asset_name, current_price, fault) ==
    /\ Begin(Call("update_current_price", user_id, asset_name, 0, current_price, fault))
    /\ UNCHANGED erased
    /\ LET err == update_current_price_check(user_id, asset_name, current_price)
           memory == load_memory(file, user_id)
           portfolio == DictGet(memory, "portfolio")
       IN  IF err # ""
           THEN ret' = Raise(err) /\ UNCHANGED <<file, persisted>>
           ELSE IF asset_name \in DOMAIN portfolio
           THEN Persist(user_id, memory,
                    set_current_price(portfolio, asset_name, current_price), fault)
           ELSE ret' = Return(portfolio) /\ UNCHANGED <<file, persisted>>

\* ----------------------------------------------------------- specifications

\* Another feature of the agent keeping its own key in the user's record:
\* memory = load_memory(user_id); memory[key] = value; save_memory(user_id, memory)
SaveSibling(user_id, value) ==
    /\ Begin(Call("sibling", user_id, "", 0, 0, "ok"))
    /\ file' = save_memory(file, user_id,
                   DictSet(load_memory(file, user_id), "notes", value), "ok")
    /\ ret' = Return(EmptyDict)
    /\ UNCHANGED <<persisted, erased>>

\* The file is damaged from outside: edited into something json.load rejects,
\* or made unreadable.
Damage(state) ==
    /\ file.state = "json"
    /\ Begin(Call("environment", "", "", 0, 0, "ok"))
    /\ file' = [state |-> state, doc |-> EmptyDict]
    /\ ret' = Return(EmptyDict)
    /\ UNCHANGED <<persisted, erased>>

\* os.remove(MEMORY_FILE)
RemoveFile ==
    /\ file.state # "missing"
    /\ Begin(Call("environment", "", "", 0, 0, "ok"))
    /\ file' = NoFile
    /\ ret' = Return(EmptyDict)
    /\ UNCHANGED <<persisted, erased>>

\* ------------------------------------------------- two concurrent processes

Procs == {"p1", "p2"}

Idle ==
    [pc |-> "idle", user_id |-> "", asset_name |-> "", quantity |-> 0,
     price |-> 0, portfolio |-> EmptyDict, data |-> EmptyDict,
     all_data |-> EmptyDict]

\* add_asset up to its call of save_memory (portfolio_manager.py:27-74)
Load(p, user_id, asset_name, quantity, purchase_price) ==
    /\ procs[p].pc = "idle"
    /\ add_asset_check(user_id, asset_name, quantity, purchase_price) = ""
    /\ LET memory == load_memory(file, user_id)
           portfolio == add_to_portfolio(DictGet(memory, "portfolio"),
                            asset_name, quantity, purchase_price)
       IN  procs' = [procs EXCEPT ![p] =
               [pc |-> "loaded", user_id |-> user_id, asset_name |-> asset_name,
                quantity |-> quantity, price |-> purchase_price,
                portfolio |-> portfolio,
                data |-> DictSet(memory, "portfolio", portfolio),
                all_data |-> EmptyDict]]
    /\ log' = Append(log, <<p, "load">>)
    /\ UNCHANGED <<file, seq_vars>>

\* save_memory, the read of the whole file (memory.py:23-26)
SaveRead(p) ==
    /\ procs[p].pc = "loaded"
    /\ procs' = [procs EXCEPT ![p].pc = "read", ![p].all_data = save_read(file)]
    /\ log' = Append(log, <<p, "read">>)
    /\ UNCHANGED <<file, seq_vars>>

\* save_memory, the write of the whole file (memory.py:27-29), and the return
SaveWrite(p) ==
    /\ procs[p].pc = "read"
    /\ file' = save_write(procs[p].all_data, procs[p].user_id, procs[p].data)
    /\ procs' = [procs EXCEPT ![p].pc = "done"]
    /\ log' = Append(log, <<p, "write">>)
    /\ UNCHANGED seq_vars

\* ----------------------------------------------------------- specifications

Init ==
    /\ file = NoFile
    /\ lastOp = Call("none", "", "", 0, 0, "ok")
    /\ ret = Return(EmptyDict)
    /\ pre = NoFile
    /\ calls = 0
    /\ persisted = EmptyDict
    /\ erased = {}
    /\ procs = [p \in Procs |-> Idle]
    /\ log = <<>>
    /\ calc = [ret |-> Return(0), op |-> "none", args |-> <<>>]
    /\ exports = EmptyDict

\* One call of the ledger with arguments from U, A, Q, P and write outcome from F.
Ledger(U, A, Q, P, F) ==
    \/ \E u \in U, a \in A, q \in Q, p \in P, w \in F : AddAsset(u, a, q, p, w)
    \/ \E u \in U, a \in A, w \in F : RemoveAsset(u, a, w)
    \/ \E u \in U : GetPortfolio(u)
    \/ \E u \in U, a \in A, p \in P, w \in F : UpdateCurrentPrice(u, a, p, w)

\* Sequential calls, storage working.
Next == Ledger(UserIds, AssetNames, Quantities, Prices, {"ok"})

Spec == Init /\ [][Next]_vars

\* Sequential calls of two users, with another feature writing its own key.
SiblingValues == {"a", "b"}

NextSiblings ==
    \/ Ledger({"u1", "u2"}, {"BTC", "ETH"}, {1005, 2000}, {0}, {"ok"})
    \/ \E u \in {"u1", "u2"}, v \in SiblingValues : SaveSibling(u, v)

SpecSiblings == Init /\ [][NextSiblings]_vars

\* Sequential calls with failing writes and a damaged or removed file.
NextFaults ==
    \/ Ledger({"u1"}, {"BTC", "ETH"}, {1005, 2000}, {0}, WriteFaults)
    \/ \E st \in {"corrupt", "unreadable"} : Damage(st)
    \/ RemoveFile

SpecFaults == Init /\ [][NextFaults]_vars

\* Two processes, each running one add_asset, their steps interleaved.
NextConc ==
    \/ \E p \in Procs, u \in {"u1", "u2"}, a \in {"BTC", "ETH"}, q \in {1005, 2000} :
           Load(p, u, a, q, 0)
    \/ \E p \in Procs : SaveRead(p)
    \/ \E p \in Procs : SaveWrite(p)

SpecConc == Init /\ [][NextConc]_vars

\* ------------------------------------------------------- numbers of any size

\* A natural number as its digits in base Base, least significant first, with
\* no leading zero digit; zero is <<>>.
Base == 16384

\* The digit of a at position i, zero beyond its length.
Digit(a, i) == IF 1 <= i /\ i <= Len(a) THEN a[i] ELSE 0

\* a without its leading zero digits
Trim(a) ==
    LET used == {i \in 1..Len(a) : a[i] # 0}
    IN  IF used = {} THEN <<>>
        ELSE SubSeq(a, 1, CHOOSE i \in used : \A j \in used : j <= i)

\* The number n < 2^31.
Big(n) == Trim(<<n % Base, (n \div Base) % Base, n \div (Base * Base)>>)

\* The value of a, for a < 2^31.
Small(a) == Digit(a, 1) + Base * Digit(a, 2) + Base * Base * Digit(a, 3)

\* a + b: a carry enters position i when some lower position produces one
\* and every position between passes it on.
BigAdd(a, b) ==
    LET n == (IF Len(a) > Len(b) THEN Len(a) ELSE Len(b)) + 1
        sum == [i \in 1..n |-> Digit(a, i) + Digit(b, i)]
        carry(i) == \E j \in 1..(i - 1) :
                        /\ sum[j] >= Base
                        /\ \A k \in (j + 1)..(i - 1) : sum[k] >= Base - 1
    IN  Trim([i \in 1..n |-> (sum[i] + (IF carry(i) THEN 1 ELSE 0)) % Base])

\* a - b for a >= b, with the borrows found the same way
BigSub(a, b) ==
    LET borrow(i) == \E j \in 1..(i - 1) :
                         /\ Digit(a, j) < Digit(b, j)
                         /\ \A k \in (j + 1)..(i - 1) : Digit(a, k) <= Digit(b, k)
    IN  Trim([i \in 1..Len(a) |->
                 (a[i] - Digit(b, i) - (IF borrow(i) THEN 1 ELSE 0)) % Base])

\* a * k for a digit k (0 <= k <= Base)
BigMul(a, k) ==
    BigAdd([i \in 1..Len(a) |-> (a[i] * k) % Base],
           <<0>> \o [i \in 1..Len(a) |-> (a[i] * k) \div Base])

\* a * b
RECURSIVE BigTimes(_, _)
BigTimes(a, b) ==
    IF a = <<>> \/ b = <<>> THEN <<>>
    ELSE BigAdd(BigMul(a, Head(b)), Trim(<<0>> \o BigTimes(a, Tail(b))))

\* a < b
BigLess(a, b) ==
    IF Len(a) # Len(b) THEN Len(a) < Len(b)
    ELSE \E i \in 1..Len(a) :
             a[i] < b[i] /\ \A k \in (i + 1)..Len(a) : a[k] = b[k]

\* a * 2^n
Shift(a, n) ==
    IF a = <<>> THEN a
    ELSE [i \in 1..(n \div 14) |-> 0] \o BigMul(a, 2 ^ (n % 14))

\* a \div 2^n for n < 14
Halve(a, n) ==
    Trim([i \in 1..Len(a) |->
             (a[i] \div 2 ^ n) + (Digit(a, i + 1) % 2 ^ n) * 2 ^ (14 - n)])

\* The number of binary digits of a.
Bits(a) ==
    IF a = <<>> THEN 0
    ELSE 14 * (Len(a) - 1)
             + (CHOOSE k \in 1..14 : 2 ^ (k - 1) <= a[Len(a)] /\ a[Len(a)] < 2 ^ k)

\* The largest g with g * q <= r, for r < q * Base and q's leading digit at
\* least Base / 2: the estimate from the leading digits is at most 2 too big.
QuotDigit(r, q) ==
    LET est == (Digit(r, Len(q) + 1) * Base + Digit(r, Len(q))) \div q[Len(q)]
        top == IF est > Base - 1 THEN Base - 1 ELSE est
    IN  IF ~BigLess(r, BigMul(q, top)) THEN top
        ELSE IF ~BigLess(r, BigMul(q, top - 1)) THEN top - 1
        ELSE top - 2

\* Long division, most significant digit first (see QuotDigit for q).
RECURSIVE LongDiv(_, _)
LongDiv(p, q) ==
    IF Len(p) < Len(q) THEN [quot |-> <<>>, rem |-> p]
    ELSE LET d == LongDiv(Tail(p), q)
             r == Trim(<<Head(p)>> \o d.rem)
             g == QuotDigit(r, q)
         IN  [quot |-> Trim(<<g>> \o d.quot), rem |-> BigSub(r, BigMul(q, g))]

\* p = quot * q + rem with 0 <= rem < q, for q > 0
BigDivMod(p, q) ==
    LET norm == (14 - (Bits(q) % 14)) % 14
        d == LongDiv(Shift(p, norm), Shift(q, norm))
    IN  [quot |-> d.quot, rem |-> Halve(d.rem, norm)]

\* ----------------------------------------------------------- Python floats

\* A float is IEEE 754 binary64: sign s, and for s # 0 the magnitude
\* m * 2^e with 2^52 <= m < 2^53 (no value here is subnormal or infinite).
Zero == [s |-> 0, m |-> <<>>, e |-> 0]

\* The e with 2^e <= p/q < 2^(e+1), for p > 0 and q > 0.
Log2(p, q) ==
    LET e == Bits(p) - Bits(q)
    IN  IF BigLess(Shift(p, IF e < 0 THEN -e ELSE 0), Shift(q, IF e > 0 THEN e ELSE 0))
        THEN e - 1 ELSE e

\* The quotient d of a division by den rounded to the nearest integer, ties to
\* the even one, as a significand with exponent e.
RoundToEven(d, den, e) ==
    LET twice == BigAdd(d.rem, d.rem)
        up == BigLess(den, twice) \/ (twice = den /\ Head(d.quot) % 2 = 1)
        m == IF up THEN BigAdd(d.quot, <<1>>) ELSE d.quot
    IN  IF m = Shift(<<1>>, 53) THEN [m |-> Shift(<<1>>, 52), e |-> e + 1]
        ELSE [m |-> m, e |-> e]

\* p/q in units of 2^e, rounded.
Significand(p, q, e) ==
    RoundToEven(BigDivMod(IF e >= 0 THEN p ELSE Shift(p, -e),
                          IF e >= 0 THEN Shift(q, e) ELSE q),
                IF e >= 0 THEN Shift(q, e) ELSE q, e)

\* The binary64 nearest to p/q (ties to the even significand), p > 0, q > 0.
Binary64(p, q) == Significand(p, q, Log2(p, q) - 52)

Signed(s, b, e) == [s |-> s, m |-> b.m, e |-> b.e + e]

\* The float a caller passes for the decimal number v thousandths.
float(v) ==
    IF v = 0 THEN Zero
    ELSE Signed(IF v > 0 THEN 1 ELSE -1,
                Binary64(Big(IF v > 0 THEN v ELSE -v), Big(1000)), 0)

\* x - y
float_sub(x, y) ==
    IF y.s = 0 THEN x
    ELSE IF x.s = 0 THEN [y EXCEPT !.s = -y.s]
    ELSE LET e == IF x.e < y.e THEN x.e ELSE y.e
             a == Shift(x.m, x.e - e)
             b == Shift(y.m, y.e - e)
         IN  IF x.s # y.s THEN Signed(x.s, Binary64(BigAdd(a, b), <<1>>), e)
             ELSE IF a = b THEN Zero
             ELSE IF BigLess(b, a) THEN Signed(x.s, Binary64(BigSub(a, b), <<1>>), e)
             ELSE Signed(-x.s, Binary64(BigSub(b, a), <<1>>), e)

\* x / y for y # 0
float_div(x, y) ==
    IF x.s = 0 THEN Zero
    ELSE Signed(x.s * y.s, Binary64(x.m, y.m), x.e - y.e)

\* x * y
float_mul(x, y) ==
    IF x.s = 0 \/ y.s = 0 THEN Zero
    ELSE Signed(x.s * y.s, Binary64(BigTimes(x.m, y.m), <<1>>), x.e + y.e)

\* x + y
float_add(x, y) == float_sub(x, [y EXCEPT !.s = -y.s])

\* m ^ k for a number m of any size
RECURSIVE BigPower(_, _)
BigPower(m, k) == IF k = 0 THEN <<1>> ELSE BigTimes(BigPower(m, k - 1), m)

\* x ** k for x > 0 and an int k >= 1: the float nearest to the power
float_pow(x, k) == Signed(1, Binary64(BigPower(x.m, k), <<1>>), x.e * k)

\* x in hundredths: the whole ones and what is left, in units of 2^x.e.
Hundredths(x) ==
    IF x.e >= 0 THEN [quot |-> Shift(BigMul(x.m, 100), x.e), rem |-> <<>>]
    ELSE BigDivMod(BigMul(x.m, 100), Shift(<<1>>, -x.e))

\* The hundredths d of x rounded, in thousandths. str(x) is the shortest
\* decimal that reads back as x: when x is the float nearest to a number
\* ending in 5 thousandths, str(x) is that number, a tie for the rounding;
\* otherwise x lies on one side of it.
quantize(x, d, rounding) ==
    LET h == Small(d.quot)
        tie == Binary64(Big(2 * h + 1), Big(200)) = [m |-> x.m, e |-> x.e]
        above == x.e < 0 /\ BigLess(Shift(<<1>>, -x.e), BigAdd(d.rem, d.rem))
        up == IF tie THEN rounding = "ROUND_HALF_UP" \/ h % 2 = 1
              ELSE above
    IN  x.s * (IF up THEN h + 1 ELSE h) * 10

\* Decimal(str(x)).quantize(Decimal("0.01"), rounding), in thousandths.
decimal_str_quantize(x, rounding) ==
    IF x.s = 0 THEN 0 ELSE quantize(x, Hundredths(x), rounding)

\* -------------------------------------------------------------- calculator

CalcReturn(value) == [kind |-> "return", value |-> value, error |-> ""]
CalcRaise(msg) == [kind |-> "raise", value |-> 0, error |-> msg]
CalcCall(op, args, outcome) == [ret |-> outcome, op |-> op, args |-> args]

\* CalculatorTool.calculate_roi
calculate_roi(initial_investment, final_value) ==
    IF initial_investment <= 0 THEN CalcRaise("Initial investment must be positive")
    ELSE IF final_value < 0 THEN CalcRaise("Final value cannot be negative")
    ELSE LET roi == float_mul(float_div(float_sub(float(final_value),
                                                  float(initial_investment)),
                                        float(initial_investment)),
                              float(100000))
         IN  CalcReturn(decimal_str_quantize(roi, "ROUND_HALF_UP"))

\* A call of the calculator leaves everything else alone.
Calculated(c) ==
    /\ calc' = c
    /\ UNCHANGED <<file, lastOp, ret, pre, calls, persisted, erased, procs, log,
                   exports>>

CalculateRoi(initial_investment, final_value) ==
    Calculated(CalcCall("calculate_roi", <<initial_investment, final_value>>,
                        calculate_roi(initial_investment, final_value)))

\* The argument checks of compound_interest and investment_simulation.
growth_check(principal, rate, years, n) ==
    IF principal <= 0 THEN "Principal must be positive"
    ELSE IF rate < 0 THEN "Interest rate cannot be negative"
    ELSE IF years < 0 THEN "Years cannot be negative"
    ELSE IF n <= 0 THEN "Compounding frequency must be positive"
    ELSE ""

\* principal * (1 + rate / n) ** (n * years), for years >= 1
growth(principal, rate, years, n) ==
    float_mul(float(principal),
              float_pow(float_add(float(1000),
                                  float_div(float(rate), float(n * 1000))),
                        n * years))

\* CalculatorTool.compound_interest
compound_interest(principal, rate, years, n) ==
    IF growth_check(principal, rate, years, n) # ""
    THEN CalcRaise(growth_check(principal, rate, years, n))
    ELSE IF years = 0
    THEN CalcReturn(decimal_str_quantize(float(principal), "ROUND_HALF_UP"))
    ELSE CalcReturn(decimal_str_quantize(growth(principal, rate, years, n),
                                         "ROUND_HALF_UP"))

\* What a simulation that carried each year's rounded amount into the next
\* would hold for the year.
RECURSIVE carried(_, _, _, _)
carried(principal, rate, year, n) ==
    IF year = 0 THEN decimal_str_quantize(float(principal), "ROUND_HALF_UP")
    ELSE decimal_str_quantize(
             growth(carried(principal, rate, year - 1, n), rate, 1, n),
             "ROUND_HALF_UP")

\* Mutant of investment_simulation: each year grows the previous year's
\* rounded amount instead of the principal.
investment_simulation_carried(principal, rate, years, n) ==
    IF growth_check(principal, rate, years, n) # ""
    THEN CalcRaise(growth_check(principal, rate, years, n))
    ELSE CalcReturn([i \in 1..(years + 1) |->
                        <<i - 1, carried(principal, rate, i - 1, n)>>])

\* CalculatorTool.investment_simulation: the dict as its (year, amount) items
\* in insertion order.
investment_simulation(principal, rate, years, n) ==
    IF growth_check(principal, rate, years, n) # ""
    THEN CalcRaise(growth_check(principal, rate, years, n))
    ELSE CalcReturn([i \in 1..(years + 1) |->
                        <<i - 1,
                          decimal_str_quantize(
                              IF i - 1 = 0 THEN float(principal)
                              ELSE growth(principal, rate, i - 1, n),
                              "ROUND_HALF_UP")>>])

CompoundInterest(principal, rate, years, n) ==
    Calculated(CalcCall("compound_interest", <<principal, rate, years, n>>,
                        compound_interest(principal, rate, years, n)))

InvestmentSimulation(principal, rate, years, n) ==
    Calculated(CalcCall("investment_simulation", <<principal, rate, years, n>>,
                        investment_simulation(principal, rate, years, n)))

\* The longest simulation.
MaxYears == 2

\* -1, 0, 200, 625, 1000
Investments == {-1000, 0, 200000, 625000, 1000000}
\* -0.05, 0, 625.031, 800, 999.95, 1000.05, 1200
FinalValues == {-50, 0, 625031, 800000, 999950, 1000050, 1200000}
\* 0, 0.05, 1.005, 1000
Principals == {0, 50, 1005, 1000000}
\* -5%, 0%, 5%, 10%
Rates == {-50, 0, 50, 100}
Frequencies == {0, 1, 2}

NextCalc ==
    \/ \E i \in Investments, f \in FinalValues : CalculateRoi(i, f)
    \/ \E p \in Principals, r \in Rates, y \in -1..MaxYears, n \in Frequencies :
           CompoundInterest(p, r, y, n)
    \/ \E p \in Principals, r \in Rates, y \in -1..MaxYears, n \in Frequencies :
           InvestmentSimulation(p, r, y, n)

SpecCalc == Init /\ [][NextCalc]_vars

\* ------------------------------------------------------ exporter, dispatcher

\* The price a holding is valued at (exporter.py:41-45, 112-116).
valuation_price(details) ==
    IF details.current_price # None
    THEN CHOOSE v \in details.current_price : TRUE
    ELSE details.purchase_prices[Len(details.purchase_prices)].price

\* float(Decimal(str(details["quantity"] * price)).quantize(Decimal("0.01"))):
\* quantize is given no rounding, so it rounds as the decimal context does,
\* ROUND_HALF_EVEN.
asset_value(details) ==
    decimal_str_quantize(
        float_mul(float(details.quantity), float(valuation_price(details))),
        "ROUND_HALF_EVEN")

\* The rows of the table, one per asset.
table_rows(portfolio) ==
    [asset_name \in DOMAIN portfolio |->
        [Quantity |-> portfolio[asset_name].quantity,
         Price |-> valuation_price(portfolio[asset_name]),
         Value |-> asset_value(portfolio[asset_name])]]

\* The sum of amounts[a] over the assets a in names.
RECURSIVE SumOver(_, _)
SumOver(amounts, names) ==
    IF names = {} THEN 0
    ELSE LET asset_name == CHOOSE a \in names : TRUE
         IN  amounts[asset_name] + SumOver(amounts, names \ {asset_name})

\* What the file holds: the CSV the rows, the PDF the rows and a total row.
document(format, portfolio) ==
    IF format = "csv" THEN [rows |-> table_rows(portfolio)]
    ELSE [rows |-> table_rows(portfolio),
          total |-> SumOver([a \in DOMAIN portfolio |-> asset_value(portfolio[a])],
                            DOMAIN portfolio)]

\* os.path.join(EXPORT_PATH, f"{user_id}_portfolio.{format}")
export_path(user_id, format) == <<user_id, "_portfolio.", format>>

Exported(outcome, files) == [ret |-> outcome, files |-> files]

\* Mutant of export_portfolio: an empty portfolio is exported as a file with
\* the header alone.
export_portfolio_header_only(format, user_id, portfolio, fault, files) ==
    IF user_id = "" THEN Exported(Raise("User ID must be a non-empty string"), files)
    ELSE IF fault # "ok" THEN Exported(Raise("Failed to write file"), files)
    ELSE Exported(Return(Some(export_path(user_id, format))),
                  DictSet(files, export_path(user_id, format), document(format, portfolio)))

\* ExporterTool.export_portfolio_csv and export_portfolio_pdf, which differ in
\* the document they write: what is returned or raised, and the files after.
export_portfolio(format, user_id, portfolio, fault, files) ==
    IF user_id = "" THEN Exported(Raise("User ID must be a non-empty string"), files)
    ELSE IF portfolio = EmptyDict THEN Exported(Return(None), files)
    ELSE IF fault # "ok" THEN Exported(Raise("Failed to write file"), files)
    ELSE Exported(Return(Some(export_path(user_id, format))),
                  DictSet(files, export_path(user_id, format), document(format, portfolio)))

ReportCall(op, user_id, portfolio, fault) ==
    [op |-> op, user_id |-> user_id, portfolio |-> portfolio, fault |-> fault,
     files |-> exports]

\* A call that reads the ledger and leaves it alone: what it returned or
\* raised, and the files after it.
Reported(call, outcome) ==
    /\ calls < MaxCalls
    /\ calls' = calls + 1
    /\ lastOp' = call
    /\ pre' = file
    /\ ret' = outcome.ret
    /\ exports' = outcome.files
    /\ UNCHANGED <<file, persisted, erased, calc, procs, log>>

\* ExporterTool.export_portfolio_csv(user_id, portfolio)
ExportPortfolioCsv(user_id, portfolio, fault) ==
    Reported(ReportCall("export_portfolio_csv", user_id, portfolio, fault),
             export_portfolio("csv", user_id, portfolio, fault, exports))

\* ExporterTool.export_portfolio_pdf(user_id, portfolio)
ExportPortfolioPdf(user_id, portfolio, fault) ==
    Reported(ReportCall("export_portfolio_pdf", user_id, portfolio, fault),
             export_portfolio("pdf", user_id, portfolio, fault, exports))

AgentResponse(text, roi, detail) == [text |-> text, roi |-> roi, detail |-> detail]

\* process_query(user_id, "roi"): PortfolioManager has no method
\* calculate_portfolio_roi, so the call at core.py:120 raises AttributeError,
\* which the handler of core.py:176 turns into a response.
process_query_roi(f, user_id) ==
    IF user_id = "" THEN AgentResponse("Invalid user ID.", None, "")
    ELSE IF get_portfolio(f, user_id) = EmptyDict
    THEN AgentResponse("Your portfolio is empty. Add assets first.", None, "")
    ELSE AgentResponse("An error occurred:", None,
             "'PortfolioManager' object has no attribute 'calculate_portfolio_roi'")

RoiQuery(user_id) ==
    Reported(ReportCall("roi", user_id, EmptyDict, "ok"),
             Exported(process_query_roi(file, user_id), exports))

\* One user's ledger, exported and queried. 0.5 units; prices 0 and 0.05.
NextReport ==
    \/ \E a \in {"BTC", "ETH"}, p \in {0, 50} : AddAsset("u1", a, 500, p, "ok")
    \/ \E a \in {"BTC", "ETH"} : RemoveAsset("u1", a, "ok")
    \/ \E a \in {"BTC", "ETH"}, p \in {0, 50} : UpdateCurrentPrice("u1", a, p, "ok")
    \/ \E u \in {"", "u1"}, w \in {"ok", "write"} :
           ExportPortfolioCsv(u, get_portfolio(file, "u1"), w)
    \/ \E u \in {"", "u1"}, w \in {"ok", "write"} :
           ExportPortfolioPdf(u, get_portfolio(file, "u1"), w)
    \/ \E u \in {"", "u1"} : RoiQuery(u)

SpecReport == Init /\ [][NextReport]_vars

\* ------------------------------------------------------------------ claims

Mutators == {"add_asset", "remove_asset", "update_current_price"}

Returned == ret.kind = "return"

\* The holdings in the file, as (user, asset) pairs.
Held(f) ==
    {ua \in UserIds \X AssetNames : ua[2] \in DOMAIN get_portfolio(f, ua[1])}

RECURSIVE SumQuantity(_)
SumQuantity(lots) ==
    IF Len(lots) = 0 THEN 0
    ELSE lots[Len(lots)].quantity + SumQuantity(SubSeq(lots, 1, Len(lots) - 1))

TwoDecimals(v) == v % 10 = 0

\* The last call added to a holding that existed / created a new holding.
AddedToExisting ==
    /\ lastOp.op = "add_asset" /\ Returned
    /\ lastOp.asset_name \in DOMAIN get_portfolio(pre, lastOp.user_id)

AddedNew ==
    /\ lastOp.op = "add_asset" /\ Returned
    /\ lastOp.asset_name \notin DOMAIN get_portfolio(pre, lastOp.user_id)

\* C1: every holding's quantity equals the sum of the quantities of its lots.
C1_QuantityIsSumOfLots ==
    \A ua \in Held(file) :
        LET h == get_portfolio(file, ua[1])[ua[2]]
        IN  h.quantity = SumQuantity(h.purchase_prices)

\* C2: every stored value is a multiple of 0.01, the round-half-up of the
\* argument supplied: holding quantities, lot quantities, lot prices and
\* current prices.
C2_StoredValuesRounded ==
    /\ \A ua \in Held(file) :
           LET h == get_portfolio(file, ua[1])[ua[2]]
           IN  /\ TwoDecimals(h.quantity)
               /\ \A i \in 1..Len(h.purchase_prices) :
                      /\ TwoDecimals(h.purchase_prices[i].quantity)
                      /\ TwoDecimals(h.purchase_prices[i].price)
               /\ \A v \in h.current_price : TwoDecimals(v)
    /\ (lastOp.op = "add_asset" /\ Returned) =>
           LET lots == get_portfolio(file, lastOp.user_id)[lastOp.asset_name].purchase_prices
           IN  lots[Len(lots)] = [quantity |-> Quantize(lastOp.quantity),
                                  price |-> Quantize(lastOp.price)]
    /\ (lastOp.op = "update_current_price" /\ Returned
        /\ lastOp.asset_name \in DOMAIN get_portfolio(file, lastOp.user_id)) =>
           get_portfolio(file, lastOp.user_id)[lastOp.asset_name].current_price
               = Some(Quantize(lastOp.price))

\* C3: add_asset on an existing asset appends exactly one lot at the end,
\* keeps the earlier lots as they were and in order, and increases the
\* holding's quantity by the new lot's quantity rounded half-up to 2 decimals.
C3_AddAppendsOneLot ==
    AddedToExisting =>
        LET old == get_portfolio(pre, lastOp.user_id)[lastOp.asset_name]
            new == get_portfolio(file, lastOp.user_id)[lastOp.asset_name]
            n == Len(old.purchase_prices)
        IN  /\ Len(new.purchase_prices) = n + 1
            /\ SubSeq(new.purchase_prices, 1, n) = old.purchase_prices
            /\ new.purchase_prices[n + 1].price = Quantize(lastOp.price)
            /\ new.quantity
                   = old.quantity + Quantize(new.purchase_prices[n + 1].quantity)
            /\ new.quantity = old.quantity + Quantize(lastOp.quantity)

\* 2 units, then 1.005 units at another price: quantity 3.01 and 2 lots.
C3_Witness ==
    /\ AddedToExisting
    /\ lastOp.quantity = 1005
    /\ LET old == get_portfolio(pre, "u1")["BTC"]
           new == get_portfolio(file, "u1")["BTC"]
       IN  /\ lastOp.asset_name = "BTC"
           /\ old.quantity = 2000 /\ Len(old.purchase_prices) = 1
           /\ new.quantity = 3010 /\ Len(new.purchase_prices) = 2
           /\ new.purchase_prices[1].price # new.purchase_prices[2].price

\* C4: remove_asset of a present asset leaves no trace of the holding: the
\* asset is absent from the persisted portfolio and from the portfolio
\* returned, and an add_asset of an absent asset, whatever was erased under
\* that name before, creates a holding of exactly one lot whose quantity is
\* the lot's rounded quantity and whose current_price is absent.
C4_RemoveErasesHolding ==
    /\ (lastOp.op = "remove_asset" /\ Returned) =>
           /\ lastOp.asset_name \notin DOMAIN get_portfolio(file, lastOp.user_id)
           /\ lastOp.asset_name \notin DOMAIN ret.value
    /\ \A e \in erased :
           (AddedNew /\ lastOp.user_id = e.user_id /\ lastOp.asset_name = e.asset_name) =>
               LET new == get_portfolio(file, lastOp.user_id)[lastOp.asset_name]
               IN  /\ Len(new.purchase_prices) = 1
                   /\ new.purchase_prices[1].price = Quantize(lastOp.price)
                   /\ new.quantity = Quantize(new.purchase_prices[1].quantity)
                   /\ new.quantity = Quantize(lastOp.quantity)
                   /\ new.current_price = None

\* A holding with a market price set is removed and the asset bought again.
C4_Witness ==
    /\ AddedNew
    /\ \E e \in erased :
           /\ e.user_id = lastOp.user_id /\ e.asset_name = lastOp.asset_name
           /\ e.holding.current_price # None
           /\ e.holding.quantity # Quantize(lastOp.quantity)
    /\ lastOp.asset_name \in DOMAIN get_portfolio(file, lastOp.user_id)

ValidationErrors ==
    {"User ID must be a non-empty string",
     "Asset name must be a non-empty string",
     "Quantity must be positive",
     "Purchase price cannot be negative",
     "Current price cannot be negative"}

\* C5: the portfolio a successful add_asset, remove_asset or
\* update_current_price returned is what get_portfolio reads back from the
\* file; get_portfolio leaves the file as it was and returns the portfolio
\* last persisted for the user, the empty mapping when none was.
C5_ReturnedIsPersisted ==
    /\ (lastOp.op \in Mutators /\ Returned) =>
           ret.value = get_portfolio(file, lastOp.user_id)
    /\ (lastOp.op = "get_portfolio" /\ lastOp.user_id # "") =>
           /\ file = pre
           /\ Returned
           /\ ret.value = DictGet(persisted, lastOp.user_id)

\* get_portfolio after a purchase and a price update reads both back.
C5_Witness ==
    /\ lastOp.op = "get_portfolio" /\ Returned
    /\ "BTC" \in DOMAIN ret.value
    /\ ret.value["BTC"].current_price # None
    /\ ret.value = persisted[lastOp.user_id]

\* The last call named an asset the user does not hold, with valid arguments.
AbsentAssetCall ==
    /\ lastOp.op \in {"remove_asset", "update_current_price"}
    /\ lastOp.user_id # "" /\ lastOp.asset_name # "" /\ lastOp.price >= 0
    /\ lastOp.asset_name \notin DOMAIN get_portfolio(pre, lastOp.user_id)

\* C6: remove_asset and update_current_price (price >= 0) for an asset that
\* is not in the portfolio raise nothing, create no holding, leave the file
\* as it was and return the user's unchanged portfolio.
C6_AbsentAssetIsNoOp ==
    AbsentAssetCall =>
        /\ Returned
        /\ file = pre
        /\ ret.value = get_portfolio(pre, lastOp.user_id)
        /\ lastOp.asset_name \notin DOMAIN ret.value
        /\ lastOp.asset_name \notin DOMAIN get_portfolio(file, lastOp.user_id)

\* A price update for ETH while only BTC is held.
C6_Witness ==
    /\ AbsentAssetCall
    /\ lastOp.op = "update_current_price"
    /\ DOMAIN ret.value = {"BTC"}

\* The last call's arguments break one of the rules of its operation.
InvalidCall ==
    \/ lastOp.op \in Mutators \cup {"get_portfolio"} /\ lastOp.user_id = ""
    \/ lastOp.op \in Mutators /\ lastOp.asset_name = ""
    \/ lastOp.op = "add_asset" /\ lastOp.quantity <= 0
    \/ lastOp.op = "add_asset" /\ lastOp.price < 0
    \/ lastOp.op = "update_current_price" /\ lastOp.price < 0

\* C7: a call with an empty user identifier, an empty asset name, a
\* quantity <= 0, a negative purchase price or a negative current price
\* (also for an asset that is not held) raises a validation error and leaves
\* the file as it was.
C7_InvalidArgumentsRejected ==
    InvalidCall =>
        /\ ret.kind = "raise"
        /\ ret.error \in ValidationErrors
        /\ file = pre

\* A negative current price for an asset that is not held, with a file on disk.
C7_Witness ==
    /\ InvalidCall
    /\ lastOp.op = "update_current_price" /\ lastOp.price < 0
    /\ lastOp.user_id # "" /\ lastOp.asset_name = "ETH"
    /\ DOMAIN get_portfolio(pre, lastOp.user_id) = {"BTC"}
    /\ ret.error = "Current price cannot be negative"

\* The record of user u in the JSON document of file f, without its portfolio.
Siblings(f, u) ==
    LET r == DictGet(f.doc, u)
    IN  [k \in DOMAIN r \ {"portfolio"} |-> r[k]]

\* C8: a ledger call for user u changes at most the value under the
\* "portfolio" key of u's record: every other user's record and every other
\* key of u's record are in the file afterwards exactly as before.
C8_OnlyOwnPortfolioChanges ==
    lastOp.op \in Mutators \cup {"get_portfolio"} =>
        /\ \A u \in DOMAIN pre.doc \ {lastOp.user_id} :
               u \in DOMAIN file.doc /\ file.doc[u] = pre.doc[u]
        /\ DOMAIN file.doc \subseteq DOMAIN pre.doc \cup {lastOp.user_id}
        /\ Siblings(file, lastOp.user_id) = Siblings(pre, lastOp.user_id)

\* u1 buys while u1 has a note and u2 has a note and a holding on file.
C8_Witness ==
    /\ lastOp.op = "add_asset" /\ Returned /\ lastOp.user_id = "u1"
    /\ "u2" \in DOMAIN pre.doc
    /\ DOMAIN pre.doc["u2"] = {"portfolio", "notes"}
    /\ DOMAIN pre.doc["u2"]["portfolio"] # {}
    /\ DOMAIN Siblings(pre, "u1") = {"notes"}
    /\ file # pre

\* Position of a step in the log.
At(p, step) == CHOOSE i \in 1..Len(log) : log[i] = <<p, step>>

AllDone == \A p \in Procs : procs[p].pc = "done"

\* Both processes worked on the same user's record and both finished their
\* load before either entered save_memory.
RacedOnOneUser ==
    /\ AllDone
    /\ procs["p1"].user_id = procs["p2"].user_id
    /\ \A p, q \in Procs : At(p, "load") < At(q, "read")

LastSaver == log[Len(log)][1]

\* C9: when two processes change the same user's record and both load before
\* either saves, the portfolio on file at the end is exactly the one the last
\* saver wrote, built from the file as it was before either change, so the
\* other process's lot is not in it.
C9_LastWriterWins ==
    RacedOnOneUser =>
        LET w == procs[LastSaver]
            final == get_portfolio(file, w.user_id)
        IN  /\ final = w.portfolio
            /\ final = add_to_portfolio(EmptyDict, w.asset_name, w.quantity, w.price)
            /\ DOMAIN final = {w.asset_name}
            /\ Len(final[w.asset_name].purchase_prices) = 1

\* Both bought BTC for u1; one lot of 2 is on file and the lot of 1.005 is gone.
C9_Witness ==
    /\ RacedOnOneUser
    /\ \A p \in Procs : procs[p].asset_name = "BTC"
    /\ procs["p1"].quantity = 1005 /\ procs["p2"].quantity = 2000
    /\ LastSaver = "p2"
    /\ get_portfolio(file, procs["p1"].user_id)["BTC"].quantity = 2000

\* The last call got as far as save_memory.
Saved ==
    /\ lastOp.op \in Mutators /\ ~InvalidCall
    /\ \/ lastOp.op = "add_asset"
       \/ lastOp.asset_name \in DOMAIN get_portfolio(pre, lastOp.user_id)

\* C10: get_portfolio on an unreadable or unparsable file returns the empty
\* mapping and raises nothing; a mutating call whose save fails raises and
\* returns no portfolio.
C10_ReadFallbackWriteRaises ==
    /\ (lastOp.op = "get_portfolio" /\ lastOp.user_id # ""
        /\ pre.state \in {"corrupt", "unreadable"}) =>
           ret = Return(EmptyDict)
    /\ (Saved /\ (lastOp.fault # "ok" \/ pre.state \in {"corrupt", "unreadable"})) =>
           /\ ret.kind = "raise"
           /\ ret.error = "Failed to save memory"
           /\ ret.value = EmptyDict

\* A purchase whose write fails midway, after an earlier purchase was saved.
C10_Witness ==
    /\ Saved /\ lastOp.fault = "write"
    /\ pre.state = "json"
    /\ DOMAIN get_portfolio(pre, lastOp.user_id) # {}
    /\ file.state = "corrupt"
    /\ ret.kind = "raise"

\* (p / q) * 100 rounded half-up (a tie goes away from zero) to two decimals,
\* in thousandths, for q > 0: decimal arithmetic, no float involved.
PercentHalfUp(p, q) ==
    LET n == BigMul(Big(IF p < 0 THEN -p ELSE p), 10000)
        h == BigDivMod(BigAdd(BigAdd(n, n), Big(q)), BigAdd(Big(q), Big(q))).quot
    IN  (IF p < 0 THEN -1 ELSE 1) * Small(h) * 10

\* C11: calculate_roi(initial, final) returns (final - initial) / initial * 100
\* rounded half-up to two decimals when initial > 0 and final >= 0, and raises
\* a validation error when initial <= 0 or final < 0.
C11_RoiRoundedHalfUp ==
    calc.op = "calculate_roi" =>
        LET initial == calc.args[1]
            final == calc.args[2]
        IN  IF initial <= 0 \/ final < 0 THEN calc.ret.kind = "raise"
            ELSE calc.ret = CalcReturn(PercentHalfUp(final - initial, initial))

\* C12: investment_simulation returns exactly years + 1 entries keyed 0, 1, ...,
\* years in that order; the entry of year y is compound_interest(principal,
\* rate, y, n), so year 0 holds the rounded principal and every year is
\* computed from the principal.
C12_SimulationIsCompoundPerYear ==
    (calc.op = "investment_simulation" /\ calc.ret.kind = "return") =>
        LET principal == calc.args[1]
            rate == calc.args[2]
            years == calc.args[3]
            n == calc.args[4]
            entries == calc.ret.value
        IN  /\ Len(entries) = years + 1
            /\ \A i \in 1..Len(entries) :
                   /\ entries[i][1] = i - 1
                   /\ entries[i][2]
                          = compound_interest(principal, rate, i - 1, n).value
            /\ entries[1][2] = Quantize(principal)

\* A simulation over two years or more at a positive rate, the amount growing.
C12_Witness ==
    /\ calc.op = "investment_simulation" /\ calc.ret.kind = "return"
    /\ calc.args[2] > 0 /\ calc.args[3] >= 2
    /\ Len(calc.ret.value) = calc.args[3] + 1
    /\ calc.ret.value[3][2] > calc.ret.value[2][2]
    /\ calc.ret.value[2][2] > calc.ret.value[1][2]

\* quantity * price rounded half-up to two decimals, in decimal arithmetic
\* (thousandths; quantity and price are not negative).
ValueHalfUp(quantity, price) == ((quantity * price + 5000) \div 10000) * 10

ExportedCsv ==
    /\ lastOp.op = "export_portfolio_csv"
    /\ ret.kind = "return" /\ ret.value # None

\* C13: a holding is valued at its current_price whenever that is set, 0
\* included, and otherwise at the price of its most recently added lot; its
\* value is quantity times that price rounded half-up to two decimals.
C13_ValuationPriceAndValue ==
    ExportedCsv =>
        \A asset_name \in DOMAIN lastOp.portfolio :
            LET details == lastOp.portfolio[asset_name]
                row == exports[export_path(lastOp.user_id, "csv")].rows[asset_name]
                lots == details.purchase_prices
            IN  /\ row.Price = IF details.current_price # None
                               THEN CHOOSE v \in details.current_price : TRUE
                               ELSE lots[Len(lots)].price
                /\ row.Value = ValueHalfUp(details.quantity, row.Price)

\* The sum over the lots of lot.quantity * lot.price.
RECURSIVE LotsCost(_)
LotsCost(lots) ==
    IF Len(lots) = 0 THEN 0
    ELSE (lots[Len(lots)].quantity * lots[Len(lots)].price) \div 1000
             + LotsCost(SubSeq(lots, 1, Len(lots) - 1))

InitialInvestment(portfolio) ==
    SumOver([a \in DOMAIN portfolio |-> LotsCost(portfolio[a].purchase_prices)],
            DOMAIN portfolio)

FinalValue(portfolio) ==
    SumOver([a \in DOMAIN portfolio |->
                ValueHalfUp(portfolio[a].quantity, valuation_price(portfolio[a]))],
            DOMAIN portfolio)

\* C14: the ROI request of a user with a non-empty portfolio answers with
\* roi(initial, final), initial the sum over all lots of quantity * price and
\* final the sum of the asset values, and with the calculator's validation
\* error when initial <= 0.
C14_PortfolioRoiAnswered ==
    (lastOp.op = "roi" /\ lastOp.user_id # ""
        /\ get_portfolio(file, lastOp.user_id) # EmptyDict) =>
        LET portfolio == get_portfolio(file, lastOp.user_id)
            roi == calculate_roi(InitialInvestment(portfolio), FinalValue(portfolio))
        IN  ret = IF roi.kind = "return"
                  THEN AgentResponse("Your portfolio ROI is", Some(roi.value), "")
                  ELSE AgentResponse("Cannot calculate ROI:", None, roi.error)

ExportOps == {"export_portfolio_csv", "export_portfolio_pdf"}

\* C15: with a non-empty user id and an empty portfolio, the CSV export and
\* the PDF export return None, raise nothing and leave the exports directory
\* as it was; a path is returned only for a non-empty portfolio.
C15_EmptyPortfolioExportsNothing ==
    (lastOp.op \in ExportOps /\ lastOp.user_id # "") =>
        /\ lastOp.portfolio = EmptyDict =>
               (ret.kind = "return" /\ ret.value = None /\ exports = lastOp.files)
        /\ (ret.kind = "return" /\ ret.value # None) =>
               lastOp.portfolio # EmptyDict

\* An export of a portfolio emptied by remove_asset, after an export that
\* wrote a file.
C15_Witness ==
    /\ lastOp.op \in ExportOps /\ lastOp.user_id # ""
    /\ lastOp.portfolio = EmptyDict
    /\ ret.kind = "return" /\ ret.value = None
    /\ exports # EmptyDict /\ exports = lastOp.files

\* Both processes finished, each for a different user.
RanForTwoUsers == AllDone /\ procs["p1"].user_id # procs["p2"].user_id

\* C16: when two processes run add_asset for two different users against the
\* same store, then under every interleaving of their load, read-whole-file
\* and write-whole-file steps the final store holds both users' portfolios as
\* each process built them: neither save discards the other user's record.
C16_BothUsersChangesPresent ==
    RanForTwoUsers =>
        \A p \in Procs : get_portfolio(file, procs[p].user_id) = procs[p].portfolio

\* The holdings of a portfolio that have no lot.
Lotless(portfolio) ==
    {a \in DOMAIN portfolio : Len(portfolio[a].purchase_prices) = 0}

\* C17: every holding on file, and every holding of a portfolio a ledger call
\* returns, has at least one lot, so the price of the last lot, which
\* valuation reads when no market price is set, is defined.
C17_EveryHoldingHasALot ==
    /\ \A u \in UserIds : Lotless(get_portfolio(file, u)) = {}
    /\ (Returned /\ lastOp.op \in Mutators \cup {"get_portfolio"}) =>
           Lotless(ret.value) = {}

\* A holding bought again after it was removed: it has the one new lot and no
\* market price, so valuation reads the lot.
C17_Witness ==
    /\ AddedNew
    /\ \E e \in erased :
           e.user_id = lastOp.user_id /\ e.asset_name = lastOp.asset_name
    /\ LET h == get_portfolio(file, lastOp.user_id)[lastOp.asset_name]
       IN  /\ h.current_price = None
           /\ Len(h.purchase_prices) = 1
           /\ valuation_price(h) = Quantize(lastOp.price)

\* The user's portfolio before and after the last call.
Before == get_portfolio(pre, lastOp.user_id)
After == get_portfolio(file, lastOp.user_id)

\* The last call set the market price of a holding that existed.
UpdatedExisting ==
    /\ lastOp.op = "update_current_price" /\ Returned
    /\ lastOp.asset_name \in DOMAIN Before

\* C18: update_current_price leaves the holding's quantity and lots as they
\* were; add_asset on a holding that exists leaves its current_price as it
\* was; and every ledger call leaves every other holding of the portfolio as
\* it was, adding and removing none.
C18_FieldsChangedByOwnOperation ==
    /\ UpdatedExisting =>
           /\ lastOp.asset_name \in DOMAIN After
           /\ After[lastOp.asset_name].quantity = Before[lastOp.asset_name].quantity
           /\ After[lastOp.asset_name].purchase_prices
                  = Before[lastOp.asset_name].purchase_prices
    /\ AddedToExisting =>
           After[lastOp.asset_name].current_price
               = Before[lastOp.asset_name].current_price
    /\ lastOp.op \in Mutators \cup {"get_portfolio"} =>
           /\ DOMAIN After \ {lastOp.asset_name} = DOMAIN Before \ {lastOp.asset_name}
           /\ \A b \in DOMAIN Before \ {lastOp.asset_name} : After[b] = Before[b]

\* A second purchase of a holding whose market price was set, with another
\* holding beside it: the price is still set.
C18_Witness ==
    /\ AddedToExisting
    /\ Before[lastOp.asset_name].current_price # None
    /\ After[lastOp.asset_name].current_price = Before[lastOp.asset_name].current_price
    /\ Len(After[lastOp.asset_name].purchase_prices) = 2
    /\ DOMAIN Before \ {lastOp.asset_name} # {}


====
